---- MODULE Spec2Model ----
(***************************************************************************)
(* Model of the listmonk-go client: the transport primitive (Client.do,    *)
(* Client.multipart), the envelope decoder (decode, request) and a         *)
(* representative set of endpoint wrappers.                                *)
(*                                                                         *)
(* Text is modelled as a sequence of characters (one-character strings;    *)
(* a run of unreserved characters may be kept as one token), so that URL   *)
(* escaping, decimal formatting and query parsing are real conversions.    *)
(***************************************************************************)
EXTENDS Integers, Sequences, FiniteSets, TLC

VARIABLES config, built, caller, pc, call, req, doCalls, doErr, resp, reads, result

vars == <<config, built, caller, pc, call, req, doCalls, doErr, resp, reads, result>>

(***************************************************************************)
(* Bounds of the model.                                                    *)
(***************************************************************************)
\* largest integer field value / slice element handed to an operation
MaxInt == 12
\* longest slice handed to an operation
MaxSlice == 2

(***************************************************************************)
(* Go values.  A struct field value is tagged with its kind.               *)
(***************************************************************************)
GoString(s) == [k |-> "string", v |-> s]
GoInt(n) == [k |-> "int", v |-> n]
GoBool(b) == [k |-> "bool", v |-> b]
GoInts(s) == [k |-> "ints", v |-> s]
GoStrings(s) == [k |-> "strings", v |-> s]
GoTime(t) == [k |-> "time", v |-> t]
GoMap(m) == [k |-> "map", v |-> m]

\* time.Time: a calendar date, the seconds of its first minute, nanoseconds
ZeroTime == [date |-> "0001-01-01", sec |-> 0, nsec |-> 0]

(***************************************************************************)
(* strconv / fmt.Sprint of integers and booleans.                          *)
(***************************************************************************)
Digit(d) == <<"0", "1", "2", "3", "4", "5", "6", "7", "8", "9">>[d + 1]

RECURSIVE Itoa(_)
Itoa(n) == IF n < 0 THEN <<"-">> \o Itoa(0 - n)
           ELSE IF n < 10 THEN <<Digit(n)>>
           ELSE Itoa(n \div 10) \o <<Digit(n % 10)>>

DigitVal(c) == CHOOSE d \in 0..9 : Digit(d) = c

RECURSIVE AtoiAcc(_, _)
AtoiAcc(s, acc) == IF s = <<>> THEN acc
                   ELSE AtoiAcc(Tail(s), acc * 10 + DigitVal(Head(s)))

\* strconv.Atoi on a well-formed decimal
Atoi(s) == IF s # <<>> /\ Head(s) = "-" THEN 0 - AtoiAcc(Tail(s), 0)
           ELSE AtoiAcc(s, 0)

\* strconv.ParseBool on the text FormatBool wrote
ParseBool(s) == s = <<"t", "r", "u", "e">>

FormatBool(b) == IF b THEN <<"t", "r", "u", "e">> ELSE <<"f", "a", "l", "s", "e">>

TwoDigits(n) == <<Digit(n \div 10), Digit(n % 10)>>

\* time.Time.Format(time.RFC3339): whole seconds only, the nanoseconds are
\* not part of the layout
FormatRFC3339(t) ==
    <<t.date, "T", "0", "0", ":", "0", "0", ":">> \o TwoDigits(t.sec) \o <<"Z">>

\* time.Parse(time.RFC3339, s) of a stamp FormatRFC3339 wrote
ParseRFC3339(s) ==
    [date |-> s[1], sec |-> Atoi(<<s[9], s[10]>>), nsec |-> 0]

(***************************************************************************)
(* net/url: QueryEscape, QueryUnescape, Values.Encode, ParseQuery.         *)
(***************************************************************************)
\* the characters QueryEscape percent-encodes, with their hex digits
HexOf == [c \in {"&", "=", "%", "+", ":", "?", "/", "[", "]", "@", "<", ">"} |->
            CASE c = "&" -> <<"2", "6">>
              [] c = "=" -> <<"3", "D">>
              [] c = "%" -> <<"2", "5">>
              [] c = "+" -> <<"2", "B">>
              [] c = ":" -> <<"3", "A">>
              [] c = "?" -> <<"3", "F">>
              [] c = "/" -> <<"2", "F">>
              [] c = "[" -> <<"5", "B">>
              [] c = "]" -> <<"5", "D">>
              [] c = "@" -> <<"4", "0">>
              [] c = "<" -> <<"3", "C">>
              [] c = ">" -> <<"3", "E">>]

\* a faulty escape that leaves every byte as it is
EscapeCharNone(c) == <<c>>

EscapeChar(c) == IF c = " " THEN <<"+">>
                 ELSE IF c \in DOMAIN HexOf THEN <<"%">> \o HexOf[c]
                 ELSE <<c>>

RECURSIVE QueryEscape(_)
QueryEscape(s) == IF s = <<>> THEN <<>>
                  ELSE EscapeChar(Head(s)) \o QueryEscape(Tail(s))

RECURSIVE QueryUnescape(_)
QueryUnescape(s) ==
    IF s = <<>> THEN <<>>
    ELSE IF Head(s) = "+" THEN <<" ">> \o QueryUnescape(Tail(s))
    ELSE IF Head(s) = "%" /\ Len(s) >= 3
         THEN <<CHOOSE c \in DOMAIN HexOf : HexOf[c] = <<s[2], s[3]>> >>
              \o QueryUnescape(SubSeq(s, 4, Len(s)))
    ELSE <<Head(s)>> \o QueryUnescape(Tail(s))

\* the keys that occur, in the byte order sort.Strings gives them
\* (upper case before lower case)
SortedKeys == <<"Attributes", "Body", "BodySource", "ContentType", "Data", "Description",
                "Email", "FromEmail", "Headers", "Lists", "Messenger", "Name", "Optin",
                "PreconfirmSubscriptions", "Status", "Subject", "SubscriberEmail",
                "SubscriberEmails", "SubscriberID", "SubscriberIDs", "Tags", "TemplateID",
                "Type",
                "all", "from", "id", "no_body", "order", "order_by", "page",
                "per_page", "query", "status", "tag", "to">>

RECURSIVE PairsOfKey(_, _)
PairsOfKey(q, key) ==
    IF q = <<>> THEN <<>>
    ELSE IF Head(q)[1] = key THEN <<Head(q)>> \o PairsOfKey(Tail(q), key)
    ELSE PairsOfKey(Tail(q), key)

RECURSIVE SortByKey(_, _)
SortByKey(q, keys) ==
    IF keys = <<>> THEN <<>>
    ELSE PairsOfKey(q, Head(keys)) \o SortByKey(q, Tail(keys))

RECURSIVE JoinPairs(_)
JoinPairs(q) ==
    IF q = <<>> THEN <<>>
    ELSE QueryEscape(<<Head(q)[1]>>) \o <<"=">> \o QueryEscape(Head(q)[2])
         \o (IF Tail(q) = <<>> THEN <<>> ELSE <<"&">> \o JoinPairs(Tail(q)))

\* url.Values.Encode: "key=value" pairs joined by "&", sorted by key, the
\* values of one key in the order they were added
Encode(q) == JoinPairs(SortByKey(q, SortedKeys))

\* index of the first occurrence of c in s, 0 when there is none
RECURSIVE IndexOf(_, _, _)
IndexOf(s, c, i) == IF i > Len(s) THEN 0
                    ELSE IF s[i] = c THEN i
                    ELSE IndexOf(s, c, i + 1)

ParsePair(part) ==
    LET i == IndexOf(part, "=", 1)
    IN IF i = 0 THEN <<QueryUnescape(part), <<>> >>
       ELSE <<QueryUnescape(SubSeq(part, 1, i - 1)),
              QueryUnescape(SubSeq(part, i + 1, Len(part)))>>

\* url.ParseQuery: the (key, value) pairs in their order of appearance
RECURSIVE ParseQuery(_)
ParseQuery(s) ==
    IF s = <<>> THEN <<>>
    ELSE LET i == IndexOf(s, "&", 1)
         IN IF i = 0 THEN <<ParsePair(s)>>
            ELSE (IF i = 1 THEN <<>> ELSE <<ParsePair(SubSeq(s, 1, i - 1))>>)
                 \o ParseQuery(SubSeq(s, i + 1, Len(s)))

\* URL.RawQuery: what follows the first "?" of a URL
RawQuery(url) ==
    IF IndexOf(url, "?", 1) = 0 THEN <<>>
    ELSE SubSeq(url, IndexOf(url, "?", 1) + 1, Len(url))

\* url.Values[key]: the values parsed for one key, in order
RECURSIVE ValuesOf(_, _)
ValuesOf(parsed, key) ==
    IF parsed = <<>> THEN <<>>
    ELSE (IF Head(parsed)[1] = <<key>> THEN <<Head(parsed)[2]>> ELSE <<>>)
         \o ValuesOf(Tail(parsed), key)


(***************************************************************************)
(* Parameter structs: the fields in declaration order with their url and   *)
(* json tags ("" when the field has no such tag) and their kind.           *)
(***************************************************************************)
Field(name, url, json, kind) == [name |-> name, url |-> url, json |-> json, kind |-> kind]

GetListsParams ==
    <<Field("Query", "query", "", "string"), Field("Status", "status", "", "strings"),
      Field("Tag", "tag", "", "strings"), Field("OrderBy", "order_by", "", "string"),
      Field("Order", "order", "", "string"), Field("Page", "page", "", "int"),
      Field("PerPage", "per_page", "", "int")>>

DeleteSubscribersParams == <<Field("IDs", "id", "", "ints")>>

GetCampaignNoBodyParams == <<Field("NoBody", "no_body", "", "bool")>>

GetCampaignViewsParams ==
    <<Field("IDs", "id", "", "ints"), Field("Type", "-", "", "string"),
      Field("From", "from", "", "time"), Field("To", "to", "", "time")>>

DeleteAllBouncesParams == <<Field("All", "all", "", "bool")>>

CreateListParams ==
    <<Field("Name", "", "name", "string"), Field("Type", "", "type", "string"),
      Field("Optin", "", "optin", "string"), Field("Tags", "", "tags", "strings"),
      Field("Description", "", "description", "string")>>

CreateSubscriberParams ==
    <<Field("Email", "", "email", "string"), Field("Name", "", "", "string"),
      Field("Status", "", "", "string"), Field("Lists", "", "", "ints"),
      Field("Attributes", "", "", "map"),
      Field("PreconfirmSubscriptions", "", "preconfirm_subscriptions", "bool")>>

CreateTemplateParams ==
    <<Field("Name", "", "name", "string"), Field("Type", "", "type", "string"),
      Field("Subject", "", "subject", "string"), Field("Body", "", "body", "string"),
      Field("BodySource", "", "body_source", "string")>>

\* Data is an `any`, Headers an http.Header; no field has a url tag
SendTemplateParams ==
    <<Field("SubscriberEmail", "", "subscriber_email", "string"),
      Field("SubscriberID", "", "subscriber_id", "int"),
      Field("SubscriberEmails", "", "subscriber_emails", "strings"),
      Field("SubscriberIDs", "", "subscriber_ids", "ints"),
      Field("TemplateID", "", "template_id", "int"),
      Field("FromEmail", "", "from_email", "string"),
      Field("Data", "", "data", "any"),
      Field("Headers", "", "headers", "header"),
      Field("Messenger", "", "messenger", "string"),
      Field("ContentType", "", "content_type", "string")>>

StructFields(type) ==
    CASE type = "GetListsParams" -> GetListsParams
      [] type = "SendTemplateParams" -> SendTemplateParams
      [] type = "CreateTemplateParams" -> CreateTemplateParams
      [] type = "DeleteSubscribersParams" -> DeleteSubscribersParams
      [] type = "GetCampaignNoBodyParams" -> GetCampaignNoBodyParams
      [] type = "GetCampaignViewsParams" -> GetCampaignViewsParams
      [] type = "DeleteAllBouncesParams" -> DeleteAllBouncesParams
      [] type = "CreateListParams" -> CreateListParams
      [] type = "UpdateListParams" -> CreateListParams
      [] type = "CreateSubscriberParams" -> CreateSubscriberParams
      [] OTHER -> <<>>

StructTypes == {"GetListsParams", "DeleteSubscribersParams", "GetCampaignNoBodyParams",
                "GetCampaignViewsParams", "DeleteAllBouncesParams", "CreateListParams",
                "UpdateListParams", "CreateSubscriberParams", "CreateTemplateParams",
                "SendTemplateParams"}

\* the zero value of a field kind
ZeroOf(kind) ==
    CASE kind = "string" -> GoString(<<>>)
      [] kind = "int" -> GoInt(0)
      [] kind = "bool" -> GoBool(FALSE)
      [] kind = "ints" -> GoInts(<<>>)
      [] kind = "strings" -> GoStrings(<<>>)
      [] kind = "time" -> GoTime(ZeroTime)
      [] kind = "map" -> GoMap(<<>>)
      [] kind = "any" -> [k |-> "any", v |-> <<>>]
      [] kind = "header" -> [k |-> "header", v |-> <<>>]

FieldNames(type) == {StructFields(type)[i].name : i \in 1..Len(StructFields(type))}

FieldByName(type, name) ==
    CHOOSE fd \in {StructFields(type)[i] : i \in 1..Len(StructFields(type))} : fd.name = name

\* the untyped nil handed to Client.do by the operations without parameters
NilData == [type |-> "nil", nilptr |-> FALSE, f |-> <<>>]

\* a nil *T stored in the `data any` parameter: the interface is not nil
NilPtr(type) == [type |-> type, nilptr |-> TRUE, f |-> <<>>]

\* &T{} : every field at its zero value
ZeroStruct(type) ==
    [type |-> type, nilptr |-> FALSE,
     f |-> [n \in FieldNames(type) |-> ZeroOf(FieldByName(type, n).kind)]]

With(o, name, val) == [o EXCEPT !.f[name] = val]

(***************************************************************************)
(* Errors.                                                                 *)
(***************************************************************************)
NoErr == [kind |-> "nil", msg |-> ""]

Err(kind, msg) == [kind |-> kind, msg |-> msg]

(***************************************************************************)
(* go-querystring: query.Values(data).                                     *)
(***************************************************************************)
\* fmt.Sprint of a map[string]any
RECURSIVE SprintEntries(_)
SprintEntries(m) ==
    IF m = <<>> THEN <<>>
    ELSE <<Head(m)[1], ":", Head(m)[2]>>
         \o (IF Tail(m) = <<>> THEN <<>> ELSE <<" ">> \o SprintEntries(Tail(m)))

\* the header keys that occur, in the order fmt.Sprint prints a map
SortedHeaderKeys == <<"X-A", "X-B">>

\* fmt.Sprint of the entries of an http.Header: key:[values]
RECURSIVE SprintHeader(_)
SprintHeader(m) ==
    IF m = <<>> THEN <<>>
    ELSE <<Head(m)[1], ":", "[">>
         \o [i \in 1..(2 * Len(Head(m)[2]) - 1) |->
               IF i % 2 = 1 THEN Head(m)[2][(i + 1) \div 2] ELSE " "]
         \o <<"]">>
         \o (IF Tail(m) = <<>> THEN <<>> ELSE <<" ">> \o SprintHeader(Tail(m)))

\* valueString: the text of one scalar value
valueString(v) ==
    CASE v.k = "string" -> v.v
      [] v.k = "int" -> Itoa(v.v)
      [] v.k = "bool" -> FormatBool(v.v)
      [] v.k = "time" -> FormatRFC3339(v.v)
      [] v.k = "map" -> <<"map", "[">> \o SprintEntries(v.v) \o <<"]">>
      [] v.k = "any" -> <<"<", "nil", ">">>
      [] v.k = "header" ->
           <<"map", "[">> \o SprintHeader(SortByKey(v.v, SortedHeaderKeys)) \o <<"]">>

RECURSIVE ElemPairs(_, _, _)
ElemPairs(key, kind, s) ==
    IF s = <<>> THEN <<>>
    ELSE << <<key, IF kind = "ints" THEN Itoa(Head(s)) ELSE Head(s)>> >>
         \o ElemPairs(key, kind, Tail(s))

\* the query key of a field: its url tag, or its Go name without one
KeyOf(fd) == IF fd.url = "" THEN fd.name ELSE fd.url

\* the pairs a field would give were it tagged omitempty
FieldPairsOmitEmpty(fd, v) ==
    IF fd.url = "-" \/ v = ZeroOf(fd.kind) THEN <<>>
    ELSE IF v.k \in {"ints", "strings"} THEN ElemPairs(KeyOf(fd), v.k, v.v)
    ELSE << <<KeyOf(fd), valueString(v)>> >>

\* the pairs one field adds: none for the tag "-", one per element for a
\* slice, one for anything else (no field carries the omitempty option)
FieldPairs(fd, v) ==
    IF fd.url = "-" THEN <<>>
    ELSE IF v.k \in {"ints", "strings"} THEN ElemPairs(KeyOf(fd), v.k, v.v)
    ELSE << <<KeyOf(fd), valueString(v)>> >>

RECURSIVE reflectValue(_, _)
reflectValue(fields, f) ==
    IF fields = <<>> THEN <<>>
    ELSE FieldPairs(Head(fields), f[Head(fields).name]) \o reflectValue(Tail(fields), f)

\* a variant of query.Values that rejects a nil pointer
ValuesNilFails(data) ==
    IF data.nilptr \/ data.type \notin StructTypes
    THEN [err |-> Err("query", "query: Values() expects struct input"), q |-> <<>>]
    ELSE [err |-> NoErr, q |-> reflectValue(StructFields(data.type), data.f)]

\* query.Values: empty for a nil pointer, an error for anything that is not
\* a struct, otherwise the pairs of the fields in declaration order
Values(data) ==
    IF data.nilptr THEN [err |-> NoErr, q |-> <<>>]
    ELSE IF data.type \notin StructTypes
         THEN [err |-> Err("query", "query: Values() expects struct input"), q |-> <<>>]
    ELSE [err |-> NoErr, q |-> reflectValue(StructFields(data.type), data.f)]

(***************************************************************************)
(* encoding/json: the document json.Encoder.Encode writes for a value.     *)
(***************************************************************************)
JNull == [t |-> "null"]
JStr(s) == [t |-> "str", s |-> s]
JNum(n) == [t |-> "num", n |-> n]
JBool(b) == [t |-> "bool", b |-> b]
JArr(a) == [t |-> "arr", a |-> a]
JObj(o) == [t |-> "obj", o |-> o]

\* a map[string]any value json cannot encode (a channel, a func)
Unsupported == "0xc000012345"

MapHasUnsupported(m) == \E i \in 1..Len(m) : m[i][2] = Unsupported

JSONOfField(v) ==
    CASE v.k = "string" -> JStr(v.v)
      [] v.k = "int" -> JNum(v.v)
      [] v.k = "bool" -> JBool(v.v)
      [] v.k = "ints" -> IF v.v = <<>> THEN JNull
                         ELSE JArr([i \in 1..Len(v.v) |-> JNum(v.v[i])])
      [] v.k = "strings" -> IF v.v = <<>> THEN JNull
                            ELSE JArr([i \in 1..Len(v.v) |-> JStr(v.v[i])])
      [] v.k = "time" -> JStr(FormatRFC3339(v.v) \o <<".">> \o Itoa(v.v.nsec))
      [] v.k = "any" -> JNull
      [] v.k = "map" -> IF v.v = <<>> THEN JNull
                        ELSE JObj([key \in {v.v[i][1] : i \in 1..Len(v.v)} |->
                                     JStr(<<(CHOOSE p \in {v.v[i] : i \in 1..Len(v.v)} : p[1] = key)[2]>>)])

JSONKey(fd) == IF fd.json = "" THEN fd.name ELSE fd.json

\* SendTemplateParams.MarshalJSON: a map of ten keys; f["Headers"] lists the
\* entries of p.Headers in the order the range loop visits them, and each
\* becomes an object of the key and Headers.Get(key), its first value
MarshalJSON(f) ==
    JObj([key \in {"subscriber_email", "subscriber_id", "subscriber_emails", "subscriber_ids",
                   "template_id", "from_email", "data", "headers", "messenger",
                   "content-type"} |->
            CASE key = "subscriber_email" -> JSONOfField(f["SubscriberEmail"])
              [] key = "subscriber_id" -> JSONOfField(f["SubscriberID"])
              [] key = "subscriber_emails" -> JSONOfField(f["SubscriberEmails"])
              [] key = "subscriber_ids" -> JSONOfField(f["SubscriberIDs"])
              [] key = "template_id" -> JSONOfField(f["TemplateID"])
              [] key = "from_email" -> JSONOfField(f["FromEmail"])
              [] key = "data" -> JSONOfField(f["Data"])
              [] key = "headers" ->
                   JArr([i \in 1..Len(f["Headers"].v) |->
                           JObj([h \in {f["Headers"].v[i][1]} |->
                                   JStr(IF f["Headers"].v[i][2] = <<>> THEN <<>>
                                        ELSE <<f["Headers"].v[i][2][1]>>)])])
              [] key = "messenger" -> JSONOfField(f["Messenger"])
              [] key = "content-type" -> JSONOfField(f["ContentType"])])

\* json.Marshal of a parameter value: null for a nil pointer, an object keyed
\* by the json tags for a struct, UnsupportedTypeError for a value it cannot
\* encode
Marshal(data) ==
    IF data.nilptr \/ data.type = "nil" THEN [err |-> NoErr, doc |-> JNull]
    ELSE IF \E n \in DOMAIN data.f : data.f[n].k = "map" /\ MapHasUnsupported(data.f[n].v)
         THEN [err |-> Err("json.UnsupportedTypeError", "json: unsupported type: chan int"),
               doc |-> JNull]
    ELSE IF data.type = "SendTemplateParams" THEN [err |-> NoErr, doc |-> MarshalJSON(data.f)]
    ELSE LET fds == StructFields(data.type)
         IN [err |-> NoErr,
             doc |-> JObj([key \in {JSONKey(fds[i]) : i \in 1..Len(fds)} |->
                            JSONOfField(data.f[(CHOOSE fd \in {fds[i] : i \in 1..Len(fds)} :
                                                  JSONKey(fd) = key).name])])]

(***************************************************************************)
(* Client configuration and construction.                                  *)
(***************************************************************************)
\* ClientConfig
ClientConfig(baseURL, apiUser, token, httpClient) ==
    [BaseURL |-> baseURL, APIUser |-> apiUser, Token |-> token, HTTPClient |-> httpClient]

WithBaseURL(baseUrl, cc) == [cc EXCEPT !.BaseURL = baseUrl]
WithAPIUser(apiUser, cc) == [cc EXCEPT !.APIUser = apiUser]
WithToken(token, cc) == [cc EXCEPT !.Token = token]
WithHTTPClient(client, cc) == [cc EXCEPT !.HTTPClient = client]

ApplyOption(option, cc) ==
    CASE option[1] = "WithBaseURL" -> WithBaseURL(option[2], cc)
      [] option[1] = "WithAPIUser" -> WithAPIUser(option[2], cc)
      [] option[1] = "WithToken" -> WithToken(option[2], cc)
      [] option[1] = "WithHTTPClient" -> WithHTTPClient(option[2], cc)

RECURSIVE ApplyOptions(_, _)
ApplyOptions(options, cc) ==
    IF options = <<>> THEN cc
    ELSE ApplyOptions(Tail(options), ApplyOption(Head(options), cc))

\* NewWithConfig: the client holds the configuration it is given
NewWithConfig(cc) == cc

\* a variant of New that applies the options from the last to the first, so
\* that the first setting of a field wins
NewFirstWins(options) ==
    NewWithConfig(ApplyOptions([i \in 1..Len(options) |-> options[Len(options) + 1 - i]],
                               ClientConfig("", "", "", "DefaultClient")))

\* New: the options applied in order to a configuration whose HTTP client is
\* http.DefaultClient
New(options) == NewWithConfig(ApplyOptions(options, ClientConfig("", "", "", "DefaultClient")))

\* the base URLs clients are built with; ":bad" does not parse
BaseURLs == {"http://lm.test", "http://lm.test/sub/", ":bad"}

\* Client.auth
\* a faulty header value: a bearer token in place of the token scheme
authBearer(cc) == "Bearer " \o cc.Token

\* Client.auth
auth(cc) == "token " \o cc.APIUser \o ":" \o cc.Token

(***************************************************************************)
(* url.JoinPath(c.config.BaseURL, path).                                   *)
(***************************************************************************)
\* url.Parse of the base URL: scheme and host kept as one token, the path
\* as characters
ParseBase(base) ==
    CASE base = "http://lm.test" ->
           [err |-> NoErr, host |-> <<"http://lm.test">>, path |-> <<>>]
      [] base = "http://lm.test/sub/" ->
           [err |-> NoErr, host |-> <<"http://lm.test">>, path |-> <<"/", "sub", "/">>]
      [] OTHER ->
           [err |-> Err("url.Error", "parse: missing protocol scheme"),
            host |-> <<>>, path |-> <<>>]

StripSlash(p) == IF p # <<>> /\ p[Len(p)] = "/" THEN SubSeq(p, 1, Len(p) - 1) ELSE p

\* URL.JoinPath: the base path and the element joined by exactly one "/"
JoinParsed(u, path) ==
    IF u.err # NoErr THEN [err |-> u.err, url |-> <<>>]
    ELSE [err |-> NoErr, url |-> u.host \o StripSlash(u.path) \o path]

JoinPath(base, path) == JoinParsed(ParseBase(base), path)

(***************************************************************************)
(* Requests, responses and the injected HTTP client.                       *)
(***************************************************************************)
NoReq == [method |-> "", url |-> <<>>, header |-> <<>>, body |-> [kind |-> "none"], ctx |-> ""]
NoResp == [status |-> 0, body |-> [kind |-> "none"]]
NoBody == [kind |-> "none"]

\* the request body json.Encoder.Encode leaves in the buffer: the document
\* and a line feed
JSONBody(doc) == [kind |-> "json", doc |-> doc, nl |-> TRUE]

\* http.NewRequestWithContext
NewRequestWithContext(ctx, method, url, body) ==
    IF ctx = "nil" THEN [err |-> Err("http", "net/http: nil Context"), req |-> NoReq]
    ELSE [err |-> NoErr,
          req |-> [method |-> method, url |-> url, header |-> <<>>, body |-> body,
                   ctx |-> ctx]]

\* http.Header.Set
HeaderSet(r, key, value) ==
    [r EXCEPT !.header = [h \in (DOMAIN r.header) \cup {key} |->
                             IF h = key THEN value ELSE r.header[h]]]

\* q.Encode() of the values query.Values returned, or its error
EncodeValues(q) == [err |-> q.err, encoded |-> IF q.err = NoErr THEN Encode(q.q) ELSE <<>>]

\* the query component Client.do derives from data
QueryOf(data) ==
    IF data.type # "nil" THEN EncodeValues(Values(data))
    ELSE [err |-> NoErr, encoded |-> <<>>]

\* a faulty endpoint that appends the separator whatever the query
EndpointOfAlways(joined, encoded) == joined \o <<"?">> \o encoded

\* the endpoint with the query appended when there is one
EndpointOf(joined, encoded) ==
    IF Len(encoded) > 0 THEN joined \o <<"?">> \o encoded ELSE joined

\* the buffer after encoder.Encode(data), or its error
EncodeBody(m) == [err |-> m.err, body |-> IF m.err = NoErr THEN JSONBody(m.doc) ELSE NoBody]

\* a faulty body that forgets the method switch
BodyOfAnyMethod(method, data) ==
    IF data.type # "nil" THEN EncodeBody(Marshal(data))
    ELSE [err |-> NoErr, body |-> NoBody]

\* a faulty body whose switch lacks the PUT case
BodyOfPostOnly(method, data) ==
    IF method = "POST" /\ data.type # "nil" THEN EncodeBody(Marshal(data))
    ELSE [err |-> NoErr, body |-> NoBody]

\* the body Client.do builds: JSON for POST and PUT with data, none otherwise
BodyOf(method, data) ==
    IF (method = "POST" \/ method = "PUT") /\ data.type # "nil" THEN EncodeBody(Marshal(data))
    ELSE [err |-> NoErr, body |-> NoBody]

\* the headers Client.do sets
DoHeaders(cc, r) ==
    HeaderSet(HeaderSet(r, "Authorization", auth(cc)), "Content-Type", "application/json")

\* a return before the round trip: no request reached the HTTP client
Failed(e) ==
    [resp |-> NoResp, err |-> e, req |-> NoReq, calls |-> 0, doErr |-> NoErr, panic |-> FALSE]

\* the contexts that are done: cancelled before the call, or cancelled
\* while the round trip is in flight
CanceledCtxs == {"canceled", "canceling"}

\* the error Do returns for a request whose context is done
Canceled == Err("context", "context canceled")

\* a faulty round trip that does not look at the request's context
HTTPClientDoNoCtx(cc, r, rt) ==
    IF cc.HTTPClient = "nil"
    THEN [resp |-> NoResp, err |-> NoErr, req |-> r, calls |-> 1, doErr |-> NoErr,
          panic |-> TRUE]
    ELSE IF rt.err # NoErr
    THEN [resp |-> NoResp, err |-> rt.err, req |-> r, calls |-> 1, doErr |-> rt.err,
          panic |-> FALSE]
    ELSE [resp |-> [status |-> rt.status, body |-> rt.body], err |-> NoErr, req |-> r,
          calls |-> 1, doErr |-> NoErr, panic |-> FALSE]

\* a faulty round trip that tries once more after a transport error
HTTPClientDoRetry(cc, r, rt) ==
    IF cc.HTTPClient = "nil"
    THEN [resp |-> NoResp, err |-> NoErr, req |-> r, calls |-> 1, doErr |-> NoErr,
          panic |-> TRUE]
    ELSE IF r.ctx \in CanceledCtxs
    THEN [resp |-> NoResp, err |-> Canceled, req |-> r, calls |-> 1, doErr |-> Canceled,
          panic |-> FALSE]
    ELSE IF rt.err # NoErr
    THEN [resp |-> NoResp, err |-> rt.err, req |-> r, calls |-> 2, doErr |-> rt.err,
          panic |-> FALSE]
    ELSE [resp |-> [status |-> rt.status, body |-> rt.body], err |-> NoErr, req |-> r,
          calls |-> 1, doErr |-> NoErr, panic |-> FALSE]

\* c.config.HTTPClient.Do(req): one round trip whose outcome rt the
\* transport decides; a nil *http.Client panics when it is used, a request
\* whose context is done comes back with the cancellation error.  calls
\* counts the invocations of Do, doErr is the error Do returned
HTTPClientDo(cc, r, rt) ==
    IF cc.HTTPClient = "nil"
    THEN [resp |-> NoResp, err |-> NoErr, req |-> r, calls |-> 1, doErr |-> NoErr,
          panic |-> TRUE]
    ELSE IF r.ctx \in CanceledCtxs
    THEN [resp |-> NoResp, err |-> Canceled, req |-> r, calls |-> 1, doErr |-> Canceled,
          panic |-> FALSE]
    ELSE IF rt.err # NoErr
    THEN [resp |-> NoResp, err |-> rt.err, req |-> r, calls |-> 1, doErr |-> rt.err,
          panic |-> FALSE]
    ELSE [resp |-> [status |-> rt.status, body |-> rt.body], err |-> NoErr, req |-> r,
          calls |-> 1, doErr |-> NoErr, panic |-> FALSE]

\* Client.do from the request on: the headers, then the round trip
doSend(cc, r, rt) ==
    IF r.err # NoErr THEN Failed(r.err)
    ELSE HTTPClientDo(cc, DoHeaders(cc, r.req), rt)

\* a faulty Client.do that sends the request although the body failed
doBuildUnchecked(cc, ctx, method, joined, q, b, rt) ==
    IF joined.err # NoErr THEN Failed(joined.err)
    ELSE IF q.err # NoErr THEN Failed(q.err)
    ELSE doSend(cc, NewRequestWithContext(ctx, method, EndpointOf(joined.url, q.encoded),
                                          b.body), rt)

\* Client.do once the endpoint is joined (joined), the query encoded (q)
\* and the body built (b): the first error ends the call
doBuild(cc, ctx, method, joined, q, b, rt) ==
    IF joined.err # NoErr THEN Failed(joined.err)
    ELSE IF q.err # NoErr THEN Failed(q.err)
    ELSE IF b.err # NoErr THEN Failed(b.err)
    ELSE doSend(cc, NewRequestWithContext(ctx, method, EndpointOf(joined.url, q.encoded),
                                          b.body), rt)

\* Client.do
do(cc, ctx, method, path, data, rt) ==
    doBuild(cc, ctx, method, JoinPath(cc.BaseURL, path), QueryOf(data),
            BodyOf(method, data), rt)

(***************************************************************************)
(* Client.multipart.                                                       *)
(***************************************************************************)
\* an io.Reader handed in as a file: nil, failing on Read, or yielding content
Reader(content) == [isnil |-> FALSE, fails |-> FALSE, content |-> content]
NilReader == [isnil |-> TRUE, fails |-> FALSE, content |-> ""]
FailingReader == [isnil |-> FALSE, fails |-> TRUE, content |-> ""]

RECURSIVE FileParts(_)
FileParts(files) ==
    IF files = <<>> THEN <<>>
    ELSE << [name |-> Head(files)[1], filename |-> Head(files)[1],
             content |-> Head(files)[2].content] >> \o FileParts(Tail(files))

RECURSIVE FieldParts(_)
FieldParts(fields) ==
    IF fields = <<>> THEN <<>>
    ELSE << [name |-> Head(fields)[1], filename |-> "", content |-> Head(fields)[2]] >>
         \o FieldParts(Tail(fields))

\* a faulty form body that leaves the fields out
MultipartBodyFilesOnly(fields, files) ==
    [kind |-> "multipart", parts |-> FileParts(files)]

\* the form body: the file parts, then the field parts
MultipartBody(fields, files) ==
    [kind |-> "multipart", parts |-> FileParts(files) \o FieldParts(fields)]

\* the headers Client.multipart sets
MultipartHeaders(cc, r) ==
    HeaderSet(HeaderSet(r, "Authorization", auth(cc)),
              "Content-Type", "multipart/form-data; boundary=b0undary")

\* Client.multipart from the request on
multipartSend(cc, r, rt) ==
    IF r.err # NoErr THEN Failed(r.err)
    ELSE HTTPClientDo(cc, MultipartHeaders(cc, r.req), rt)

\* Client.multipart once the endpoint is joined: io.Copy from a nil reader
\* panics, a failing reader ends the call with its error
multipartBuild(cc, ctx, joined, fields, files, rt) ==
    IF joined.err # NoErr THEN Failed(joined.err)
    ELSE IF \E i \in 1..Len(files) : files[i][2].isnil
         THEN [resp |-> NoResp, err |-> NoErr, req |-> NoReq, calls |-> 0, doErr |-> NoErr,
               panic |-> TRUE]
    ELSE IF \E i \in 1..Len(files) : files[i][2].fails
         THEN Failed(Err("io", "read error"))
    ELSE multipartSend(cc, NewRequestWithContext(ctx, "POST", joined.url,
                                                 MultipartBody(fields, files)), rt)

\* fields and files are the maps in the order the range loops visit them
multipart(cc, ctx, path, fields, files, rt) ==
    multipartBuild(cc, ctx, JoinPath(cc.BaseURL, path), fields, files, rt)

(***************************************************************************)
(* The envelope decoder.                                                   *)
(***************************************************************************)
\* response bodies: text that is not JSON, an empty stream, or a JSON document
TextBody(text) == [kind |-> "text", text |-> text]
EmptyBody == [kind |-> "empty"]
JSONDoc(doc) == [kind |-> "json", doc |-> doc]

EmptyObject == JObj([key \in {} |-> JNull])

\* what json.Decoder.Decode reports before it looks at the target
StreamError(body) ==
    CASE body.kind = "text" -> Err("json.SyntaxError", "invalid character '<' looking for beginning of value")
      [] body.kind = "empty" -> Err("io", "EOF")
      [] OTHER -> NoErr

TypeError(what) == Err("json.UnmarshalTypeError", "json: cannot unmarshal " \o what)

\* decoder.Decode(new(ErrorResponse))
DecodeErrorResponse(body) ==
    IF StreamError(body) # NoErr THEN [err |-> StreamError(body), Message |-> ""]
    ELSE IF body.doc.t = "null" THEN [err |-> NoErr, Message |-> ""]
    ELSE IF body.doc.t # "obj" THEN [err |-> TypeError(body.doc.t), Message |-> ""]
    ELSE IF "message" \notin DOMAIN body.doc.o THEN [err |-> NoErr, Message |-> ""]
    ELSE IF body.doc.o["message"].t = "str"
         THEN [err |-> NoErr, Message |-> body.doc.o["message"].s]
    ELSE IF body.doc.o["message"].t = "null" THEN [err |-> NoErr, Message |-> ""]
    ELSE [err |-> TypeError(body.doc.o["message"].t), Message |-> ""]

\* Go values an operation returns
GoNil == [t |-> "nil"]
ValBool(b) == [t |-> "bool", b |-> b]
ValString(s) == [t |-> "string", s |-> s]
ValPtr(o) == [t |-> "ptr", o |-> o]
ValSlice(a) == [t |-> "slice", a |-> a]
\* string(body) of a body read whole
ValText(body) == [t |-> "text", body |-> body]

\* the zero value of a payload kind
ZeroVal(x) ==
    CASE x = "bool" -> ValBool(FALSE)
      [] x = "string" -> ValString("")
      [] OTHER -> GoNil

\* the JSON kind a payload kind accepts
Accepts(x, doc) ==
    CASE x = "*struct" -> doc.t = "obj"
      [] x = "slice" -> doc.t = "arr"
      [] x = "bool" -> doc.t = "bool"
      [] x = "string" -> doc.t = "str"
      [] OTHER -> TRUE

\* decoding one JSON value into a target of kind x: null leaves the zero value
DecodeValue(x, doc) ==
    IF doc.t = "null" THEN [err |-> NoErr, val |-> ZeroVal(x)]
    ELSE IF ~Accepts(x, doc) THEN [err |-> TypeError(doc.t), val |-> ZeroVal(x)]
    ELSE [err |-> NoErr,
          val |-> CASE x = "*struct" -> ValPtr(doc.o)
                    [] x = "slice" -> ValSlice(doc.a)
                    [] x = "bool" -> ValBool(doc.b)
                    [] x = "string" -> ValString(doc.s)
                    [] OTHER -> doc]

\* the result shapes: Response[X] (the payload under "data") and bare X
Wrapped(x) == [wrap |-> "data", x |-> x]
Bare(x) == [wrap |-> "bare", x |-> x]

\* a faulty success decode that picks the shape by looking at the document:
\* the value under "data" when there is one, the whole document otherwise
DecodeSuccessInferred(shape, body) ==
    IF StreamError(body) # NoErr THEN [err |-> StreamError(body), val |-> ZeroVal(shape.x)]
    ELSE IF body.doc.t = "obj" /\ "data" \in DOMAIN body.doc.o
         THEN DecodeValue(shape.x, body.doc.o["data"])
    ELSE DecodeValue(shape.x, body.doc)

\* decoder.Decode(new(T)) on a success response; val is resp.Data for
\* Response[X] and *resp for a bare X
DecodeSuccess(shape, body) ==
    IF StreamError(body) # NoErr THEN [err |-> StreamError(body), val |-> ZeroVal(shape.x)]
    ELSE IF shape.wrap = "bare" THEN DecodeValue(shape.x, body.doc)
    ELSE IF body.doc.t = "null" THEN [err |-> NoErr, val |-> ZeroVal(shape.x)]
    ELSE IF body.doc.t # "obj" THEN [err |-> TypeError(body.doc.t), val |-> ZeroVal(shape.x)]
    ELSE IF "data" \notin DOMAIN body.doc.o THEN [err |-> NoErr, val |-> ZeroVal(shape.x)]
    ELSE DecodeValue(shape.x, body.doc.o["data"])

StatusOK == 200

\* a faulty error branch that tries the success shape on the same stream
\* when the envelope did not decode
decodeErrorFallback(shape, data) ==
    IF data.err # NoErr
    THEN [isnil |-> TRUE, val |-> ZeroVal(shape.x), err |-> data.err,
          reads |-> <<"error", "success">>]
    ELSE [isnil |-> TRUE, val |-> ZeroVal(shape.x), err |-> Err("errors.New", data.Message),
          reads |-> <<"error">>]

\* a faulty error branch that builds the error from the message although
\* the body did not decode
decodeErrorSwallow(shape, data) ==
    [isnil |-> TRUE, val |-> ZeroVal(shape.x), err |-> Err("errors.New", data.Message),
     reads |-> <<"error">>]

\* a faulty error branch that reports a fixed text, not the message
decodeErrorGeneric(shape, data) ==
    IF data.err # NoErr
    THEN [isnil |-> TRUE, val |-> ZeroVal(shape.x), err |-> data.err, reads |-> <<"error">>]
    ELSE [isnil |-> TRUE, val |-> ZeroVal(shape.x), err |-> Err("errors.New", "request failed"),
          reads |-> <<"error">>]

\* the error branch of decode: the decode error, or the envelope's message
decodeError(shape, data) ==
    IF data.err # NoErr
    THEN [isnil |-> TRUE, val |-> ZeroVal(shape.x), err |-> data.err, reads |-> <<"error">>]
    ELSE [isnil |-> TRUE, val |-> ZeroVal(shape.x), err |-> Err("errors.New", data.Message),
          reads |-> <<"error">>]

\* a faulty success branch that drops the decode error
decodeDataLenient(shape, data) ==
    [isnil |-> FALSE, val |-> data.val, err |-> NoErr, reads |-> <<"success">>]

\* the success branch of decode: the decode error, or the payload
decodeData(shape, data) ==
    IF data.err # NoErr
    THEN [isnil |-> TRUE, val |-> ZeroVal(shape.x), err |-> data.err, reads |-> <<"success">>]
    ELSE [isnil |-> FALSE, val |-> data.val, err |-> NoErr, reads |-> <<"success">>]

\* a faulty decode that takes every 2xx status for success
decodeAny2xx(shape, r) ==
    IF r.status \div 100 # 2 THEN decodeError(shape, DecodeErrorResponse(r.body))
    ELSE decodeData(shape, DecodeSuccess(shape, r.body))

\* decode[T]: isnil tells whether the *T it returns is nil, reads lists the
\* calls made on resp.Body in order (a Decode pass for the error envelope
\* or for the success shape; decode makes no other call on the body)
decode(shape, r) ==
    IF r.status # StatusOK THEN decodeError(shape, DecodeErrorResponse(r.body))
    ELSE decodeData(shape, DecodeSuccess(shape, r.body))

\* what an operation hands back: the transport record with the outcome
Outcome(r, val, err, rd) ==
    [resp |-> r.resp, req |-> r.req, calls |-> r.calls, doErr |-> r.doErr,
     panic |-> r.panic, val |-> val, err |-> err, reads |-> rd]

Decoded(r, d) == Outcome(r, d.val, d.err, d.reads)

\* a faulty continuation that drops the error of Client.do
requestDecodeSwallow(shape, r) ==
    IF r.panic \/ r.err # NoErr THEN Outcome(r, ZeroVal(shape.x), NoErr, <<>>)
    ELSE Decoded(r, decode(shape, r.resp))

\* what follows Client.do (or Client.multipart) in request and in the upload
\* wrappers: the error as it is, or the decoded response
requestDecode(shape, r) ==
    IF r.panic \/ r.err # NoErr THEN Outcome(r, ZeroVal(shape.x), r.err, <<>>)
    ELSE Decoded(r, decode(shape, r.resp))

\* request[T] followed by the wrapper's `return resp.Data, nil` (or `*resp`)
request(cc, shape, ctx, method, path, data, rt) ==
    requestDecode(shape, do(cc, ctx, method, path, data, rt))

(***************************************************************************)
(* Inputs.                                                                 *)
(***************************************************************************)
\* context.Context arguments: a live context, nil, a context cancelled
\* before the call, a context cancelled during the round trip
Ctxs == {"background", "nil", "canceled", "canceling"}

\* strings handed in as field values
SomeStrings == {<<"a", " ", "b">>, <<"x", "&", "y", "=", "1">>, <<"1", "0", "0", "%", "+">>}

SomeInts == {1, MaxInt}

\* the slices of at most MaxSlice elements
Slices(S) == UNION {[1..n -> S] : n \in 0..MaxSlice}

SomeTimes == {ZeroTime,
              [date |-> "2024-05-01", sec |-> 7, nsec |-> 0],
              [date |-> "2024-05-01", sec |-> 59, nsec |-> 500]}

GetListsInputs ==
    LET z == ZeroStruct("GetListsParams")
    IN {NilPtr("GetListsParams"), z}
       \cup {With(z, "Query", GoString(s)) : s \in SomeStrings}
       \cup {With(With(z, "Page", GoInt(n)), "PerPage", GoInt(MaxInt)) : n \in SomeInts}
       \cup {With(With(z, "Status", GoStrings(<< <<"active">>, <<"x", "&", "y", "=", "1">> >>)),
                  "Tag", GoStrings(<< <<"b">>, <<"a", " ", "b">> >>))}

CreateListInputs(type) ==
    LET z == ZeroStruct(type)
    IN {NilPtr(type), z,
        With(With(With(z, "Name", GoString(<<"T", "e", "s", "t">>)),
                  "Type", GoString(<<"private">>)),
             "Tags", GoStrings(<< <<"t", "e", "s", "t", " ", "t", "a", "g">> >>))}

CreateSubscriberInputs ==
    LET z == With(ZeroStruct("CreateSubscriberParams"), "Email",
                  GoString(<<"test", "@", "example.com">>))
    IN {z,
        With(With(z, "Lists", GoInts(<<1, MaxInt>>)), "Attributes",
             GoMap(<< <<"city", "x">> >>)),
        With(z, "Attributes", GoMap(<< <<"c", Unsupported>> >>))}

GetCampaignViewsInputs ==
    LET z == With(ZeroStruct("GetCampaignViewsParams"), "Type", GoString(<<"views">>))
    IN {With(With(With(z, "IDs", GoInts(ids)), "From", GoTime(t)), "To", GoTime(ZeroTime)) :
          ids \in {<<>>, <<MaxInt, 1>>}, t \in SomeTimes}

CreateTemplateInputs ==
    {With(With(With(ZeroStruct("CreateTemplateParams"), "Name", GoString(<<"Welcome">>)),
               "Type", GoString(<<"tx">>)),
          "Body", GoString(<<"<", "p", ">", "h", "i", "<", "/", "p", ">">>))}

\* the headers of the last two inputs are one map, visited in either order
SendTemplateInputs ==
    LET z == With(With(With(ZeroStruct("SendTemplateParams"),
                            "SubscriberEmail", GoString(<<"ada", "@", "x.io">>)),
                       "TemplateID", GoInt(MaxInt)),
                  "ContentType", GoString(<<"html">>))
    IN {NilPtr("SendTemplateParams"), z,
        With(z, "Headers", [k |-> "header", v |-> << <<"X-A", <<"1">> >>,
                                                     <<"X-B", <<"2", "3">> >> >>]),
        With(z, "Headers", [k |-> "header", v |-> << <<"X-B", <<"2", "3">> >>,
                                                     <<"X-A", <<"1">> >> >>])}

\* what the transport may answer
Statuses == {200, 201, 400}

Bodies ==
    {TextBody("<html>"), EmptyBody, JSONDoc(JNull), JSONDoc(EmptyObject),
     JSONDoc(JObj([message |-> JStr("invalid email")])),
     JSONDoc(JObj([message |-> JNum(5)])),
     JSONDoc(JObj([data |-> JObj([id |-> JNum(1), email |-> JStr("a@b.com")])])),
     JSONDoc(JObj([data |-> JNull])),
     JSONDoc(JObj([data |-> JBool(TRUE)])),
     JSONDoc(JObj([data |-> JArr(<<>>)])),
     JSONDoc(JObj([data |-> JArr(<<JObj([id |-> JNum(1), name |-> JStr("Welcome")])>>)])),
     JSONDoc(JArr(<<>>))}

RoundTrips ==
    {[err |-> Err("net", "dial tcp: connection refused"), status |-> 0, body |-> NoBody]}
    \cup {[err |-> NoErr, status |-> st, body |-> b] : st \in Statuses, b \in Bodies}

(***************************************************************************)
(* The operations.  An operation runs from the call to its return; the     *)
(* caller then takes the result (Return).                                  *)
(***************************************************************************)
\* a variant in which an operation leaves a trace of itself in the client
ReturnsWritingConfig(op, via, ctx, method, path, data, o) ==
    /\ pc = "idle"
    /\ pc' = "done"
    /\ call' = [op |-> op, via |-> via, ctx |-> ctx, method |-> method, path |-> path,
                data |-> data]
    /\ req' = o.req
    /\ doCalls' = o.calls
    /\ doErr' = o.doErr
    /\ resp' = o.resp
    /\ reads' = o.reads
    /\ result' = [val |-> o.val, err |-> o.err, panic |-> o.panic]
    /\ config' = [config EXCEPT !.Token = "last"]
    /\ UNCHANGED <<built, caller>>

\* the state an operation leaves: its arguments, the request it handed to
\* the HTTP client, the number of Do invocations, the response, the read
\* passes made over its body and the result
Returns(op, via, ctx, method, path, data, o) ==
    /\ pc = "idle"
    /\ pc' = "done"
    /\ call' = [op |-> op, via |-> via, ctx |-> ctx, method |-> method, path |-> path,
                data |-> data]
    /\ req' = o.req
    /\ doCalls' = o.calls
    /\ doErr' = o.doErr
    /\ resp' = o.resp
    /\ reads' = o.reads
    /\ result' = [val |-> o.val, err |-> o.err, panic |-> o.panic]
    /\ UNCHANGED <<config, built, caller>>

GetLists ==
    \E ctx \in Ctxs, params \in GetListsInputs, rt \in RoundTrips :
        LET path == <<"/", "api", "/", "lists">>
        IN Returns("GetLists", "do", ctx, "GET", path, params,
                   request(config, Wrapped("*struct"), ctx, "GET", path, params, rt))

GetPublicLists ==
    \E ctx \in Ctxs, rt \in RoundTrips :
        LET path == <<"/", "api", "/", "public", "/", "lists">>
        IN Returns("GetPublicLists", "do", ctx, "GET", path, NilData,
                   request(config, Bare("slice"), ctx, "GET", path, NilData, rt))

GetSubscriber ==
    \E ctx \in Ctxs, id \in SomeInts, rt \in RoundTrips :
        LET path == <<"/", "api", "/", "subscribers", "/">> \o Itoa(id)
        IN Returns("GetSubscriber", "do", ctx, "GET", path, NilData,
                   request(config, Wrapped("*struct"), ctx, "GET", path, NilData, rt))

ExportSubscriber ==
    \E ctx \in Ctxs, id \in SomeInts, rt \in RoundTrips :
        LET path == <<"/", "api", "/", "subscribers", "/">> \o Itoa(id) \o <<"/", "export">>
        IN Returns("ExportSubscriber", "do", ctx, "GET", path, NilData,
                   request(config, Bare("*struct"), ctx, "GET", path, NilData, rt))

SendOptinConfirmation ==
    \E ctx \in Ctxs, id \in SomeInts, rt \in RoundTrips :
        LET path == <<"/", "api", "/", "subscribers", "/">> \o Itoa(id) \o <<"/", "optin">>
        IN Returns("SendOptinConfirmation", "do", ctx, "POST", path, NilData,
                   request(config, Wrapped("bool"), ctx, "POST", path, NilData, rt))

DeleteSubscribers ==
    \E ctx \in Ctxs, ids \in Slices(SomeInts), rt \in RoundTrips :
        LET path == <<"/", "api", "/", "subscribers">>
            params == With(ZeroStruct("DeleteSubscribersParams"), "IDs", GoInts(ids))
        IN Returns("DeleteSubscribers", "do", ctx, "DELETE", path, params,
                   request(config, Wrapped("bool"), ctx, "DELETE", path, params, rt))

GetCampaign ==
    \E ctx \in Ctxs, id \in SomeInts, noBody \in BOOLEAN, rt \in RoundTrips :
        LET path == <<"/", "api", "/", "campaigns", "/">> \o Itoa(id)
            params == With(ZeroStruct("GetCampaignNoBodyParams"), "NoBody", GoBool(noBody))
        IN Returns("GetCampaign", "do", ctx, "GET", path, params,
                   request(config, Wrapped("*struct"), ctx, "GET", path, params, rt))

\* a nil params pointer dereferenced before anything is built: the call
\* panics with no request made
nilDereference ==
    Outcome([resp |-> NoResp, req |-> NoReq, calls |-> 0, doErr |-> NoErr, panic |-> TRUE],
            GoNil, NoErr, <<>>)

\* the path is formatted from params.Type, which panics on a nil params
GetCampaignViews ==
    \/ \E ctx \in Ctxs, params \in GetCampaignViewsInputs, rt \in RoundTrips :
          LET path == <<"/", "api", "/", "campaigns", "/", "analytics", "/">>
                      \o params.f["Type"].v
          IN Returns("GetCampaignViews", "do", ctx, "GET", path, params,
                     request(config, Wrapped("slice"), ctx, "GET", path, params, rt))
    \/ \E ctx \in Ctxs :
          Returns("GetCampaignViews", "do", ctx, "GET", <<>>,
                  NilPtr("GetCampaignViewsParams"), nilDereference)

CreateList ==
    \E ctx \in Ctxs, params \in CreateListInputs("CreateListParams"), rt \in RoundTrips :
        LET path == <<"/", "api", "/", "lists">>
        IN Returns("CreateList", "do", ctx, "POST", path, params,
                   request(config, Wrapped("*struct"), ctx, "POST", path, params, rt))

UpdateList ==
    \E ctx \in Ctxs, id \in SomeInts, params \in CreateListInputs("UpdateListParams"),
       rt \in RoundTrips :
        LET path == <<"/", "api", "/", "lists", "/">> \o Itoa(id)
        IN Returns("UpdateList", "do", ctx, "PUT", path, params,
                   request(config, Wrapped("*struct"), ctx, "PUT", path, params, rt))

CreateSubscriber ==
    \E ctx \in Ctxs, params \in CreateSubscriberInputs, rt \in RoundTrips :
        LET path == <<"/", "api", "/", "subscribers">>
        IN Returns("CreateSubscriber", "do", ctx, "POST", path, params,
                   request(config, Wrapped("*struct"), ctx, "POST", path, params, rt))

DeleteAllBounces ==
    \E ctx \in Ctxs, rt \in RoundTrips :
        LET path == <<"/", "api", "/", "bounces">>
            params == With(ZeroStruct("DeleteAllBouncesParams"), "All", GoBool(TRUE))
        IN Returns("DeleteAllBounces", "do", ctx, "DELETE", path, params,
                   request(config, Wrapped("bool"), ctx, "DELETE", path, params, rt))

\* the template wrappers after request: `return nil, err`, or
\* `return &resp.Data[0], nil`, which panics when Data has no element
firstTemplate(o) ==
    IF o.panic \/ o.err # NoErr THEN [o EXCEPT !.val = GoNil]
    ELSE IF o.val.t = "slice" /\ Len(o.val.a) > 0 THEN [o EXCEPT !.val = ValPtr(o.val.a[1].o)]
    ELSE [o EXCEPT !.val = GoNil, !.panic = TRUE]

\* CreateTemplate hands nil to request, not its params (kept in the call
\* record beside the data Client.do receives)
CreateTemplate ==
    \E ctx \in Ctxs, params \in CreateTemplateInputs, rt \in RoundTrips :
        LET path == <<"/", "api", "/", "templates">>
        IN Returns("CreateTemplate", "do", ctx, "POST", path,
                   [type |-> "nil", nilptr |-> FALSE, f |-> <<>>, params |-> params],
                   firstTemplate(request(config, Wrapped("slice"), ctx, "POST", path,
                                         NilData, rt)))

UpdateTemplate ==
    \E ctx \in Ctxs, id \in SomeInts, rt \in RoundTrips :
        LET path == <<"/", "api", "/", "templates", "/">> \o Itoa(id)
        IN Returns("UpdateTemplate", "do", ctx, "PUT", path, NilData,
                   firstTemplate(request(config, Wrapped("slice"), ctx, "PUT", path,
                                         NilData, rt)))

SendTemplate ==
    \E ctx \in Ctxs, params \in SendTemplateInputs, rt \in RoundTrips :
        LET path == <<"/", "api", "/", "tx">>
        IN Returns("SendTemplate", "do", ctx, "POST", path, params,
                   request(config, Wrapped("bool"), ctx, "POST", path, params, rt))

\* the error branch of the preview wrappers
previewError(r, data) ==
    IF data.err # NoErr THEN Outcome(r, ValString(""), data.err, <<"error">>)
    ELSE Outcome(r, ValString(""), Err("errors.New", data.Message), <<"error">>)

\* a faulty preview that runs the JSON decoder over a success body first
previewReadParsed(r) ==
    IF r.panic \/ r.err # NoErr THEN Outcome(r, ValString(""), r.err, <<>>)
    ELSE IF r.resp.status # StatusOK
         THEN previewError(r, DecodeErrorResponse(r.resp.body))
    ELSE IF StreamError(r.resp.body) # NoErr
         THEN Outcome(r, ValString(""), StreamError(r.resp.body), <<"success">>)
    ELSE Outcome(r, ValText(r.resp.body), NoErr, <<"success">>)

\* the preview wrappers after Client.do: the status check, then io.ReadAll
previewRead(r) ==
    IF r.panic \/ r.err # NoErr THEN Outcome(r, ValString(""), r.err, <<>>)
    ELSE IF r.resp.status # StatusOK
         THEN previewError(r, DecodeErrorResponse(r.resp.body))
    ELSE Outcome(r, ValText(r.resp.body), NoErr, <<"raw">>)

\* the preview wrappers call Client.do and read the response themselves
preview(cc, ctx, path, rt) == previewRead(do(cc, ctx, "GET", path, NilData, rt))

GetCampaignPreview ==
    \E ctx \in Ctxs, id \in SomeInts, rt \in RoundTrips :
        LET path == <<"/", "api", "/", "campaigns", "/">> \o Itoa(id) \o <<"/", "preview">>
        IN Returns("GetCampaignPreview", "do", ctx, "GET", path, NilData,
                   preview(config, ctx, path, rt))

GetTemplatePreview ==
    \E ctx \in Ctxs, id \in SomeInts, rt \in RoundTrips :
        LET path == <<"/", "api", "/", "templates", "/">> \o Itoa(id) \o <<"/", "preview">>
        IN Returns("GetTemplatePreview", "do", ctx, "GET", path, NilData,
                   preview(config, ctx, path, rt))

\* the upload wrappers call Client.multipart and decode the response
upload(cc, shape, ctx, path, fields, files, rt) ==
    requestDecode(shape, multipart(cc, ctx, path, fields, files, rt))

UploadMedia ==
    \E ctx \in Ctxs, file \in {Reader("PNG"), FailingReader, NilReader}, rt \in RoundTrips :
        LET path == <<"/", "api", "/", "media">>
            files == << <<"file", file>> >>
        IN Returns("UploadMedia", "multipart", ctx, "POST", path,
                   [type |-> "nil", nilptr |-> FALSE, f |-> <<>>, fields |-> <<>>,
                    files |-> files],
                   upload(config, Wrapped("*struct"), ctx, path, <<>>, files, rt))

\* the text of a sequence of characters
RECURSIVE Concat(_)
Concat(s) == IF s = <<>> THEN "" ELSE Head(s) \o Concat(Tail(s))

\* the elements of an []int in JSON, separated by commas
RECURSIVE IntsText(_)
IntsText(s) ==
    IF s = <<>> THEN ""
    ELSE Concat(Itoa(Head(s))) \o (IF Tail(s) = <<>> THEN "" ELSE "," \o IntsText(Tail(s)))

\* string(config) after json.Marshal(params.Config)
ImportConfigJSON(cfg) ==
    "{\"mode\":\"" \o cfg.Mode \o "\",\"delim\":\"" \o cfg.Delimeter \o "\",\"lists\":"
    \o (IF cfg.Lists = <<>> THEN "null" ELSE "[" \o IntsText(cfg.Lists) \o "]")
    \o ",\"overwrite\":" \o (IF cfg.Overwrite THEN "true" ELSE "false") \o "}"

\* ImportSubscribersParams values: a nil pointer, or a configuration and a file
ImportInputs ==
    {[nilptr |-> TRUE, Config |-> [Mode |-> "", Delimeter |-> "", Lists |-> <<>>,
                                  Overwrite |-> FALSE],
      File |-> NilReader]}
    \cup {[nilptr |-> FALSE, Config |-> cfg, File |-> Reader("email,name")] :
            cfg \in {[Mode |-> "", Delimeter |-> "", Lists |-> <<>>, Overwrite |-> FALSE],
                     [Mode |-> "subscribe", Delimeter |-> ",", Lists |-> <<1, 2>>,
                      Overwrite |-> TRUE]}}

\* ImportSubscribers once params is known not to be nil
importSend(cc, ctx, path, params, rt) ==
    upload(cc, Wrapped("*struct"), ctx, path,
           << <<"params", ImportConfigJSON(params.Config)>> >>,
           << <<"file", params.File>> >>, rt)

\* params.Config on a nil params panics before anything is built
ImportSubscribers ==
    \E ctx \in Ctxs, params \in ImportInputs, rt \in RoundTrips :
        LET path == <<"/", "api", "/", "import", "/", "subscribers">>
        IN Returns("ImportSubscribers", "multipart", ctx, "POST", path,
                   [type |-> "nil", nilptr |-> params.nilptr, f |-> <<>>,
                    fields |-> IF params.nilptr THEN <<>>
                               ELSE << <<"params", ImportConfigJSON(params.Config)>> >>,
                    files |-> IF params.nilptr THEN <<>> ELSE << <<"file", params.File>> >>,
                    cfg |-> params.Config],
                   IF params.nilptr THEN nilDereference
                   ELSE importSend(config, ctx, path, params, rt))

\* the caller takes the result; the call's request and response are dropped
Return ==
    /\ pc = "done"
    /\ pc' = "idle"
    /\ call' = [op |-> "", via |-> "", ctx |-> "", method |-> "", path |-> <<>>,
                data |-> NilData]
    /\ req' = NoReq
    /\ doCalls' = 0
    /\ doErr' = NoErr
    /\ resp' = NoResp
    /\ reads' = <<>>
    /\ result' = [val |-> GoNil, err |-> NoErr, panic |-> FALSE]
    /\ UNCHANGED <<config, built, caller>>

\* the caller writes a new token into the values it built the client from.
\* NewWithConfig kept the caller's *ClientConfig, so the client sees the
\* write; New filled a ClientConfig of its own, which the caller cannot reach
CallerWrites ==
    /\ pc = "idle"
    /\ caller.Token # "rotated"
    /\ caller' = [caller EXCEPT !.Token = "rotated"]
    /\ config' = IF built.by = "NewWithConfig" THEN caller' ELSE config
    /\ UNCHANGED <<built, pc, call, req, doCalls, doErr, resp, reads, result>>

\* the option lists New is called with
NewOptions ==
    {<< <<"WithBaseURL", u>>, <<"WithAPIUser", "api">>, <<"WithToken", "s3cret">> >> :
       u \in BaseURLs}
    \cup {<< <<"WithToken", "t0">>, <<"WithHTTPClient", "custom">>,
             <<"WithBaseURL", "http://lm.test">>, <<"WithToken", "t1">> >>}

\* the configurations the caller fills in for NewWithConfig (which may lack
\* the HTTP client)
ClientsByConfig ==
    {ClientConfig("http://lm.test", "api", "s3cret", h) : h \in {"nil", "DefaultClient"}}

\* built records the constructor, the options and the values supplied to
\* it, caller the values as the caller holds them now
Init ==
    /\ built \in {[by |-> "New", options |-> o, supplied |-> New(o)] : o \in NewOptions}
               \cup {[by |-> "NewWithConfig", options |-> <<>>, supplied |-> NewWithConfig(c)] :
                        c \in ClientsByConfig}
    /\ config = built.supplied
    /\ caller = config
    /\ pc = "idle"
    /\ call = [op |-> "", via |-> "", ctx |-> "", method |-> "", path |-> <<>>,
               data |-> NilData]
    /\ req = NoReq
    /\ doCalls = 0
    /\ doErr = NoErr
    /\ resp = NoResp
    /\ reads = <<>>
    /\ result = [val |-> GoNil, err |-> NoErr, panic |-> FALSE]

Next ==
    \/ GetLists
    \/ GetPublicLists
    \/ GetSubscriber
    \/ ExportSubscriber
    \/ SendOptinConfirmation
    \/ DeleteSubscribers
    \/ GetCampaign
    \/ GetCampaignViews
    \/ CreateList
    \/ UpdateList
    \/ CreateSubscriber
    \/ DeleteAllBounces
    \/ GetCampaignPreview
    \/ GetTemplatePreview
    \/ CreateTemplate
    \/ UpdateTemplate
    \/ SendTemplate
    \/ UploadMedia
    \/ ImportSubscribers
    \/ Return
    \/ CallerWrites

Spec == Init /\ [][Next]_vars

(***************************************************************************)
(* What a finished call shows of the steps before the round trip.          *)
(***************************************************************************)
\* ImportSubscribers and GetCampaignViews panic on a nil params pointer,
\* and io.Copy panics on a nil reader once the endpoint is joined
ReaderPanics ==
    \/ call.op \in {"ImportSubscribers", "GetCampaignViews"} /\ call.data.nilptr
    \/ /\ call.via = "multipart"
       /\ JoinPath(config.BaseURL, call.path).err = NoErr
       /\ \E i \in 1..Len(call.data.files) : call.data.files[i][2].isnil

\* the error of the first step that failed among joining the endpoint,
\* encoding the query and encoding the body (JSON or multipart); NoErr
\* when all of them succeeded
EncodingError ==
    IF call.op \in {"ImportSubscribers", "GetCampaignViews"} /\ call.data.nilptr THEN NoErr
    ELSE IF JoinPath(config.BaseURL, call.path).err # NoErr
    THEN JoinPath(config.BaseURL, call.path).err
    ELSE IF call.via = "multipart"
         THEN IF \E i \in 1..Len(call.data.files) : call.data.files[i][2].fails
              THEN Err("io", "read error") ELSE NoErr
    ELSE IF QueryOf(call.data).err # NoErr THEN QueryOf(call.data).err
    ELSE BodyOf(call.method, call.data).err

\* a request was handed to the HTTP client
Sent == doCalls > 0 /\ req.method # ""

(***************************************************************************)
(* Properties of the transport layer.                                      *)
(***************************************************************************)
\* C1: an operation invokes the HTTP client's Do at most once per call, and
\* exactly once when the endpoint join, the query encoding, the body
\* encoding and the request construction all succeed; when Do returns an
\* error the operation returns that error after that single invocation.
C1_DoAtMostOnce ==
    pc = "done" =>
        /\ doCalls <= 1
        /\ (EncodingError = NoErr /\ ~ReaderPanics /\ call.ctx # "nil" => doCalls = 1)
        /\ (doErr # NoErr => doCalls = 1 /\ result.err = doErr /\ resp = NoResp)

\* a call whose single round trip failed and which returned that failure
C1_Witness ==
    /\ pc = "done"
    /\ doCalls = 1
    /\ doErr = Err("net", "dial tcp: connection refused")
    /\ result.err = doErr

\* C2: when joining the endpoint, encoding the query, encoding the JSON body
\* or building the multipart body fails, the operation returns that error
\* and the HTTP client's Do is not invoked.
C2_EncodingFailureSkipsDo ==
    pc = "done" /\ EncodingError # NoErr =>
        /\ result.err = EncodingError
        /\ ~result.panic
        /\ doCalls = 0
        /\ req.method = ""
        /\ resp = NoResp

\* CreateSubscriber with an attribute JSON cannot encode: the error comes
\* back and nothing was sent
C2_Witness ==
    /\ pc = "done"
    /\ call.op = "CreateSubscriber"
    /\ result.err.kind = "json.UnsupportedTypeError"
    /\ doCalls = 0

C4_PublicListsUnauthenticated ==
    call.op = "GetPublicLists" /\ Sent => "Authorization" \notin DOMAIN req.header

\* C5: a request Client.do sends with method GET or DELETE never carries a
\* body, whatever parameter object the call was given.
C5_NoBodyOnGetDelete ==
    call.via = "do" /\ Sent /\ call.method \in {"GET", "DELETE"} =>
        /\ req.method = call.method
        /\ req.body = NoBody

\* a DELETE sent for a parameter object that holds ids: they are in the
\* query and the body is empty
C5_Witness ==
    /\ Sent
    /\ call.op = "DeleteSubscribers"
    /\ req.method = "DELETE"
    /\ Len(call.data.f["IDs"].v) > 0
    /\ req.body = NoBody

\* C6: a request Client.do sends with method POST or PUT carries, when the
\* call's data is not nil, a body that is the JSON document of the data
\* and a Content-Type of application/json; when the data is nil it carries
\* no body.
C6_JSONBodyOnPostPut ==
    call.via = "do" /\ Sent /\ call.method \in {"POST", "PUT"} =>
        /\ req.method = call.method
        /\ (call.data.type # "nil" =>
               /\ req.body = JSONBody(Marshal(call.data).doc)
               /\ req.header["Content-Type"] = "application/json")
        /\ (call.data.type = "nil" => req.body = NoBody)

\* UpdateList sent by PUT with a list named "Test": the name is in the body
C6_Witness ==
    /\ Sent
    /\ call.op = "UpdateList"
    /\ req.method = "PUT"
    /\ req.body.kind = "json"
    /\ req.body.doc.t = "obj"
    /\ req.body.doc.o["name"] = JStr(<<"T", "e", "s", "t">>)

\* C7: whatever the method, data that is not nil is encoded into the query:
\* the request URL is the joined endpoint, "?" and the encoded string when
\* that string is not empty, and the joined endpoint alone otherwise.
C7_QueryAppended ==
    call.via = "do" /\ Sent =>
        LET joined == JoinPath(config.BaseURL, call.path).url
            encoded == IF call.data.type # "nil" THEN Encode(Values(call.data).q) ELSE <<>>
        IN /\ (encoded # <<>> => req.url = joined \o <<"?">> \o encoded)
           /\ (encoded = <<>> => req.url = joined)
           /\ (IndexOf(req.url, "?", 1) # 0 <=> encoded # <<>>)

\* a POST whose body object is also in the query string
C7_Witness ==
    /\ Sent
    /\ call.op = "CreateList"
    /\ req.method = "POST"
    /\ ValuesOf(ParseQuery(RawQuery(req.url)), "Name") = << <<"T", "e", "s", "t">> >>

(***************************************************************************)
(* Properties of the query encoding.                                       *)
(***************************************************************************)
\* a request Client.do sent for a parameter struct that is not a nil pointer
SentStruct ==
    /\ call.via = "do"
    /\ Sent
    /\ call.data.type \in StructTypes
    /\ ~call.data.nilptr

\* the values the request URL's query holds for a key
QueryValues(key) == ValuesOf(ParseQuery(RawQuery(req.url)), key)

\* the fields of the call's parameter struct that are encoded
EncodedFields ==
    {fd \in {StructFields(call.data.type)[i] : i \in 1..Len(StructFields(call.data.type))} :
        fd.url # "-"}

\* an empty string, 0, false or an empty slice
IsZero(fd, v) ==
    fd.kind \in {"string", "int", "bool", "ints", "strings"} /\ v = ZeroOf(fd.kind)

\* the text of a zero-valued scalar
ZeroText(kind) ==
    CASE kind = "string" -> <<>>
      [] kind = "int" -> <<"0">>
      [] kind = "bool" -> <<"f", "a", "l", "s", "e">>

\* C8 as the specification states it: a zero-valued field (empty string,
\* 0, false, empty slice) is left out of the query string, and a parameter
\* object whose fields are all zero gives a URL with no query component.
C8_ZeroValuesOmitted ==
    SentStruct =>
        /\ \A fd \in EncodedFields :
              IsZero(fd, call.data.f[fd.name]) => QueryValues(KeyOf(fd)) = <<>>
        /\ ((\A fd \in EncodedFields : IsZero(fd, call.data.f[fd.name]))
               => IndexOf(req.url, "?", 1) = 0)

\* C8: only empty slices are left out of the query string; a zero-valued
\* scalar field (empty string, 0, false) is encoded as its key with the
\* text of the zero value; the URL has no query component exactly when
\* every encoded field is an empty slice, or the parameter is a nil pointer.
C8_OnlyEmptySlicesOmitted ==
    /\ SentStruct =>
          /\ \A fd \in EncodedFields :
                IsZero(fd, call.data.f[fd.name]) =>
                    QueryValues(KeyOf(fd)) =
                        IF fd.kind \in {"ints", "strings"} THEN <<>>
                        ELSE <<ZeroText(fd.kind)>>
          /\ (IndexOf(req.url, "?", 1) = 0 <=>
                 \A fd \in EncodedFields :
                     fd.kind \in {"ints", "strings"} /\ call.data.f[fd.name].v = <<>>)
    /\ (call.via = "do" /\ Sent /\ call.data.nilptr => IndexOf(req.url, "?", 1) = 0)

\* GetLists with &GetListsParams{}: every scalar is in the query string
C8_Witness ==
    /\ Sent
    /\ call.op = "GetLists"
    /\ call.data = ZeroStruct("GetListsParams")
    /\ RawQuery(req.url) = <<"order", "=", "&", "order_by", "=", "&", "page", "=", "0", "&",
                             "per_page", "=", "0", "&", "query", "=">>

\* the values parsed for a field give back the value want: one value for a
\* scalar, one value per element in the element order for a slice
Recovered(kind, vals, want) ==
    CASE kind = "string" -> vals = <<want>>
      [] kind = "int" -> Len(vals) = 1 /\ Atoi(vals[1]) = want
      [] kind = "bool" -> Len(vals) = 1 /\ ParseBool(vals[1]) = want
      [] kind = "strings" -> vals = want
      [] kind = "ints" ->
           Len(vals) = Len(want) /\ \A j \in 1..Len(want) : Atoi(vals[j]) = want[j]
      [] kind = "time" -> Len(vals) = 1 /\ ParseRFC3339(vals[1]) = want
      [] OTHER -> TRUE

C10_ErrorEnvelope ==
    pc = "done" /\ resp.status # 0 /\ resp.status # StatusOK
      /\ DecodeErrorResponse(resp.body).err = NoErr =>
        /\ result.err = Err("errors.New", DecodeErrorResponse(resp.body).Message)
        /\ result.val.t \in {"nil", "bool", "string"}
        /\ (result.val.t = "bool" => ~result.val.b)
        /\ (result.val.t = "string" => result.val.s = "")

\* a 400 answered with {"message": "invalid email"}
C10_Witness ==
    /\ pc = "done"
    /\ resp.status = 400
    /\ resp.body = JSONDoc(JObj([message |-> JStr("invalid email")]))
    /\ result.err.msg = "invalid email"
    /\ result.val.t = "nil"

\* the operation got a response: Do returned one and nothing panicked
GotResponse == pc = "done" /\ resp.status # 0

\* the result holds no payload: a nil pointer or slice, false, or ""
NoPayload ==
    /\ result.val.t \in {"nil", "bool", "string"}
    /\ (result.val.t = "bool" => ~result.val.b)
    /\ (result.val.t = "string" => result.val.s = "")

\* C11: when the response status is not 200 and the body does not decode
\* (it is not JSON, it is empty, or it is JSON of another shape), the
\* operation returns no payload and the decode error itself, not an error
\* made from a message, and the success shape is never decoded.
C11_ErrorBodyUndecodable ==
    GotResponse /\ resp.status # StatusOK /\ DecodeErrorResponse(resp.body).err # NoErr =>
        /\ result.err = DecodeErrorResponse(resp.body).err
        /\ result.err.kind # "errors.New"
        /\ NoPayload
        /\ reads = <<"error">>

\* a 400 answered with an HTML page: the syntax error comes back
C11_Witness ==
    /\ GotResponse
    /\ resp.status = 400
    /\ resp.body = TextBody("<html>")
    /\ result.err.kind = "json.SyntaxError"
    /\ reads = <<"error">>

\* C12: whether an operation fails with a protocol error depends on the
\* status alone: a response with a status other than 200 (201 included)
\* gives an error and no payload whatever its body, and a response with
\* status 200 never gives an error made from a message, even when its body
\* is a {message} document.
C12_ErrorByStatusAlone ==
    GotResponse =>
        /\ (resp.status # StatusOK => result.err # NoErr /\ NoPayload)
        /\ (resp.status = StatusOK => result.err.kind # "errors.New")

\* a 201 whose body is a well-formed success document: the call fails
C12_Witness ==
    /\ GotResponse
    /\ resp.status = 201
    /\ resp.body = JSONDoc(JObj([data |-> JObj([id |-> JNum(1), email |-> JStr("a@b.com")])]))
    /\ result.err = Err("errors.New", "")
    /\ NoPayload

\* the operations whose type parameter is the payload itself
BareOps == {"ExportSubscriber", "GetPublicLists"}

\* the Go value a JSON object, array or boolean decodes to
AsValue(doc) ==
    CASE doc.t = "obj" -> ValPtr(doc.o)
      [] doc.t = "arr" -> ValSlice(doc.a)
      [] doc.t = "bool" -> ValBool(doc.b)
      [] OTHER -> GoNil

PreviewOps == {"GetCampaignPreview", "GetTemplatePreview"}

\* C14: for an operation that decodes a structure, a response with status
\* 200 whose body is not valid JSON makes the operation fail with the JSON
\* decode error and no payload; the error is not made from a message.
C14_SuccessBodyNotJSON ==
    GotResponse /\ resp.status = StatusOK /\ call.op \notin PreviewOps
      /\ StreamError(resp.body) # NoErr =>
        /\ result.err = StreamError(resp.body)
        /\ result.err.kind # "errors.New"
        /\ NoPayload

\* GetLists answered 200 with an HTML page
C14_Witness ==
    /\ GotResponse
    /\ call.op = "GetLists"
    /\ resp.status = StatusOK
    /\ resp.body = TextBody("<html>")
    /\ result.err.kind = "json.SyntaxError"
    /\ result.val = GoNil

C16_OneReadPass ==
    /\ GotResponse =>
          /\ Len(reads) = 1
          /\ reads[1] = IF resp.status # StatusOK THEN "error"
                        ELSE IF call.op \in PreviewOps THEN "raw" ELSE "success"
    /\ (pc = "done" /\ resp.status = 0 => reads = <<>>)

\* a 200 with an empty body: the one pass is the success decode, which fails
C16_Witness ==
    /\ GotResponse
    /\ resp.status = StatusOK
    /\ resp.body = EmptyBody
    /\ reads = <<"success">>
    /\ result.err = Err("io", "EOF")

\* the operations whose payload is a pointer
PointerOps == {"GetLists", "GetSubscriber", "ExportSubscriber", "GetCampaign", "CreateList",
               "UpdateList", "CreateSubscriber", "UploadMedia"}

\* C17: an operation with a pointer payload ends with a non-nil payload and
\* a nil error, or with a nil payload and a non-nil error; a 200 whose body
\* is {"data": null}, {} or null never gives a nil payload with a nil error.
C17_PayloadXorError ==
    pc = "done" /\ ~result.panic /\ call.op \in PointerOps =>
        (result.val = GoNil <=> result.err # NoErr)

(***************************************************************************)
(* Properties of cancellation.                                             *)
(***************************************************************************)
\* the context of the finished call was cancelled before the call, or
\* during its round trip
CallCanceled ==
    /\ pc = "done"
    /\ \/ call.ctx = "canceled"
       \/ call.ctx = "canceling" /\ doCalls > 0

\* C18 as the specification states it: when the context is cancelled
\* before or during the round trip the operation fails with the
\* cancellation error, with no response or payload and no decode; also a
\* context cancelled at call entry is reported as the cancellation error.
C18_CanceledFailsWithCancellation ==
    CallCanceled /\ ~result.panic =>
        /\ result.err = Canceled
        /\ resp = NoResp
        /\ NoPayload
        /\ reads = <<>>
        /\ doCalls <= 1

\* C18: when the context is cancelled before or during the round trip and
\* the request reaches the HTTP client, Do is invoked once, its
\* cancellation error is the operation's error, and there is no response,
\* no payload and no decode.  A context cancelled at call entry does not
\* stop the steps before the round trip: if the endpoint join or an
\* encoding fails, that error is reported and Do is not invoked.
C18_CanceledAtRoundTrip ==
    CallCanceled =>
        /\ (doCalls > 0 /\ ~result.panic =>
               /\ doCalls = 1
               /\ doErr = Canceled
               /\ result.err = Canceled
               /\ resp = NoResp
               /\ NoPayload
               /\ reads = <<>>)
        /\ (EncodingError # NoErr => result.err = EncodingError /\ doCalls = 0)
        /\ (EncodingError = NoErr /\ ~ReaderPanics => doCalls = 1)

\* an upload whose context was cancelled before the call: the file is
\* read, the request is handed to Do, the cancellation comes back
C18_Witness ==
    /\ pc = "done"
    /\ call.ctx = "canceled"
    /\ call.op = "UploadMedia"
    /\ req.body.kind = "multipart"
    /\ doCalls = 1
    /\ result.err = Canceled
    /\ resp = NoResp

(***************************************************************************)
(* Properties of the multipart upload.                                     *)
(***************************************************************************)
\* C19: a multipart upload sends a single POST whose multipart/form-data
\* body holds, for every entry of the files map, a file part under that
\* name with the whole content of the stream, and for every entry of the
\* fields map a form part under that name with the string; ImportSubscribers
\* sends the part "file" and the part "params" with the JSON of the
\* configuration.
C19_MultipartParts ==
    call.via = "multipart" /\ Sent =>
        /\ doCalls = 1
        /\ req.method = "POST"
        /\ req.body.kind = "multipart"
        /\ req.header["Content-Type"] = "multipart/form-data; boundary=b0undary"
        /\ Len(req.body.parts) = Len(call.data.files) + Len(call.data.fields)
        /\ \A i \in 1..Len(call.data.files) :
              \E j \in 1..Len(req.body.parts) :
                  req.body.parts[j] = [name |-> call.data.files[i][1],
                                       filename |-> call.data.files[i][1],
                                       content |-> call.data.files[i][2].content]
        /\ \A i \in 1..Len(call.data.fields) :
              \E j \in 1..Len(req.body.parts) :
                  req.body.parts[j] = [name |-> call.data.fields[i][1], filename |-> "",
                                       content |-> call.data.fields[i][2]]
        /\ (call.op = "ImportSubscribers" =>
               call.data.fields = << <<"params", ImportConfigJSON(call.data.cfg)>> >>)

\* ImportSubscribers with a CSV file and a configuration
C19_Witness ==
    /\ Sent
    /\ call.op = "ImportSubscribers"
    /\ \E j \in 1..Len(req.body.parts) :
          req.body.parts[j] = [name |-> "file", filename |-> "file", content |-> "email,name"]
    /\ \E j \in 1..Len(req.body.parts) :
          req.body.parts[j] =
              [name |-> "params", filename |-> "",
               content |-> "{\"mode\":\"subscribe\",\"delim\":\",\",\"lists\":[1,2],\"overwrite\":true}"]

(***************************************************************************)
(* Properties of the configuration.                                        *)
(***************************************************************************)
\* C20: the configuration of a client is immutable after construction: the
\* base URL, API user, token and HTTP client an operation uses are the
\* values supplied to New or NewWithConfig, whatever the caller does
\* afterwards with the option values or the ClientConfig it passed in.
C20_ConfigImmutable ==
    /\ config = built.supplied
    /\ (Sent => req.header["Authorization"] = auth(built.supplied))

C22_FailuresPassedThrough ==
    pc = "done" /\ ~result.panic =>
        /\ (EncodingError # NoErr =>
               result.err = EncodingError /\ doCalls = 0 /\ resp = NoResp /\ reads = <<>>)
        /\ (EncodingError = NoErr /\ call.ctx = "nil" =>
               /\ result.err = Err("http", "net/http: nil Context")
               /\ doCalls = 0 /\ resp = NoResp /\ reads = <<>>)
        /\ (doErr # NoErr =>
               result.err = doErr /\ doCalls = 1 /\ resp = NoResp /\ reads = <<>>)
        /\ (GotResponse /\ resp.status # StatusOK /\ DecodeErrorResponse(resp.body).err # NoErr =>
               result.err = DecodeErrorResponse(resp.body).err /\ reads = <<"error">>)
        /\ (GotResponse /\ reads = <<"success">> /\ StreamError(resp.body) # NoErr =>
               result.err = StreamError(resp.body))
        /\ (result.err = NoErr =>
               /\ EncodingError = NoErr
               /\ call.ctx # "nil"
               /\ doErr = NoErr
               /\ GotResponse
               /\ resp.status = StatusOK
               /\ (reads = <<"success">> => StreamError(resp.body) = NoErr))

\* the construction of the request failed on a nil context after the query
\* and the body were encoded: the operation returned that error and the
\* HTTP client was not invoked
C22_Witness ==
    /\ pc = "done"
    /\ call.ctx = "nil"
    /\ call.op = "CreateList"
    /\ EncodingError = NoErr
    /\ result.err = Err("http", "net/http: nil Context")
    /\ doCalls = 0

(***************************************************************************)
(* Properties of calls with nil parameters.                                *)
(***************************************************************************)
\* C23: GetLists called with a nil parameter pointer, as the test suite
\* calls it, does not fail while the request is built: the request has the
\* joined endpoint with no query string and no body, the round trip is
\* issued, and the response is decoded as for any other call.
C23_NilParamsListRequest ==
    /\ pc = "done"
    /\ call.op = "GetLists"
    /\ call.data.nilptr
    /\ JoinPath(config.BaseURL, call.path).err = NoErr
    /\ call.ctx # "nil"
    /\ config.HTTPClient # "nil"
    => /\ ~result.panic
       /\ doCalls = 1
       /\ req.method = "GET"
       /\ req.url = JoinPath(config.BaseURL, call.path).url
       /\ req.body = NoBody
       /\ (GotResponse =>
              /\ result.err = decode(Wrapped("*struct"), resp).err
              /\ result.val = decode(Wrapped("*struct"), resp).val
              /\ reads = decode(Wrapped("*struct"), resp).reads)

\* GetLists(ctx, nil) returned the lists object of a 200 response
C23_Witness ==
    /\ Sent
    /\ call.op = "GetLists"
    /\ call.data.nilptr
    /\ resp.status = StatusOK
    /\ result.err = NoErr
    /\ result.val.t = "ptr"
    /\ req.body = NoBody

(***************************************************************************)
(* Properties of construction.                                             *)
(***************************************************************************)
\* the value the last option of the given kind carries, or the default when
\* no option of that kind was passed
LastOf(options, kind, default) ==
    LET S == {i \in 1..Len(options) : options[i][1] = kind}
    IN IF S = {} THEN default
       ELSE options[CHOOSE i \in S : \A j \in S : j <= i][2]

\* C24: New applies its options in the order given to a configuration whose
\* HTTP client starts as http.DefaultClient: a client built without
\* WithHTTPClient uses http.DefaultClient, the last option that sets a
\* field wins, and each option changes only its own field.
C24_NewAppliesOptions ==
    built.by = "New" =>
        /\ config = ClientConfig(LastOf(built.options, "WithBaseURL", ""),
                                 LastOf(built.options, "WithAPIUser", ""),
                                 LastOf(built.options, "WithToken", ""),
                                 LastOf(built.options, "WithHTTPClient", "DefaultClient"))
        /\ (Sent => req.header["Authorization"]
                       = "token " \o LastOf(built.options, "WithAPIUser", "")
                                  \o ":" \o LastOf(built.options, "WithToken", ""))

\* a client built with two WithToken options, a custom HTTP client and no
\* API user sent a request with the second token
C24_Witness ==
    /\ Sent
    /\ built.by = "New"
    /\ \E i, j \in 1..Len(built.options) :
          i < j /\ built.options[i] = <<"WithToken", "t0">> /\ built.options[j] = <<"WithToken", "t1">>
    /\ config.Token = "t1"
    /\ config.HTTPClient = "custom"
    /\ config.APIUser = ""
    /\ req.header["Authorization"] = "token :t1"

(***************************************************************************)
(* Properties of resources.                                                *)
(***************************************************************************)
\* C25: every response body obtained from the HTTP client is closed by the
\* time the operation that obtained it returns, on the success path, the
\* protocol-error path and the decode-error path alike.
C25_ResponseBodyClosed ==
    GotResponse => \E i \in 1..Len(reads) : reads[i] = "close"

(***************************************************************************)
(* Properties of the template operations.                                  *)
(***************************************************************************)
\* C26: CreateTemplate transmits its params: the POST to /api/templates
\* carries the JSON serialization of the CreateTemplateParams argument as
\* its body.
C26_CreateTemplateSendsParams ==
    Sent /\ call.op = "CreateTemplate" =>
        /\ req.method = "POST"
        /\ req.body = JSONBody(Marshal(call.data.params).doc)

\* C27: for every response with status 200, CreateTemplate and
\* UpdateTemplate end by returning a template or an error; a response whose
\* data array is empty or null does not abort the call.
C27_TemplateOrError ==
    GotResponse /\ resp.status = StatusOK /\ call.op \in {"CreateTemplate", "UpdateTemplate"} =>
        /\ ~result.panic
        /\ (result.val # GoNil \/ result.err # NoErr)

\* C28: every operation that accepts a params pointer tolerates a nil
\* pointer the way GetLists does: it issues its request or returns an
\* error, and does not abort by dereferencing the nil params.
C28_NilParamsTolerated ==
    pc = "done" /\ call.data.nilptr /\ call.ctx # "nil" /\ config.HTTPClient # "nil" =>
        /\ ~result.panic
        /\ (doCalls = 1 \/ result.err # NoErr)

(***************************************************************************)
(* Properties of the transactional message body.                           *)
(***************************************************************************)
\* the request of a SendTemplate call with parameters
SentTemplate == Sent /\ call.op = "SendTemplate" /\ ~call.data.nilptr

\* the parameter values that are equal to d as Go values: the same fields,
\* the Headers map with its entries visited in any order
SameArguments(d) ==
    {With(d, "Headers", [k |-> "header", v |-> h]) :
       h \in {g \in [1..Len(d.f["Headers"].v) -> {d.f["Headers"].v[i] :
                                                    i \in 1..Len(d.f["Headers"].v)}] :
                 \A i, j \in 1..Len(g) : i # j => g[i] # g[j]}}

\* C29: the JSON body of SendTemplate has exactly the keys the json tags of
\* SendTemplateParams name; the ContentType field is sent under the key
\* content_type.
C29_SendTemplateKeys ==
    SentTemplate =>
        /\ req.body.kind = "json"
        /\ DOMAIN req.body.doc.o = {JSONKey(SendTemplateParams[i]) :
                                       i \in 1..Len(SendTemplateParams)}
        /\ "content_type" \in DOMAIN req.body.doc.o
        /\ req.body.doc.o["content_type"] = JStr(call.data.f["ContentType"].v)

\* C30: the construction of a request is deterministic: calls with equal
\* arguments on the same configuration give the same URL and body; the
\* headers array of a SendTemplate body has the same element order whatever
\* order the Headers map is visited in, and holds every value of a header
\* that has several.
C30_DeterministicRequest ==
    SentTemplate =>
        /\ \A d \in SameArguments(call.data) :
              /\ EndpointOf(JoinPath(config.BaseURL, call.path).url, QueryOf(d).encoded) = req.url
              /\ BodyOf(call.method, d).body = req.body
        /\ \A i \in 1..Len(call.data.f["Headers"].v) :
              \A j \in 1..Len(call.data.f["Headers"].v[i][2]) :
                  \E n \in 1..Len(req.body.doc.o["headers"].a) :
                      LET e == req.body.doc.o["headers"].a[n].o
                          key == call.data.f["Headers"].v[i][1]
                      IN /\ key \in DOMAIN e
                         /\ \/ e[key] = JStr(<<call.data.f["Headers"].v[i][2][j]>>)
                            \/ /\ e[key].t = "arr"
                               /\ \E m \in 1..Len(e[key].a) :
                                     e[key].a[m] = JStr(<<call.data.f["Headers"].v[i][2][j]>>)
====
